---------------------------- MODULE Spec2Model ----------------------------
(***************************************************************************)
(* The process table, life cycle, sleep/wakeup and the four schedulers of   *)
(* kernel/proc.c.  Every CPU runs either its scheduler loop or the kernel  *)
(* thread of the process it dispatched.  A step of the model is one        *)
(* critical section of the code: it begins at an acquire() (the only place *)
(* a CPU can block) and runs to the next acquire() or to swtch().          *)
(***************************************************************************)
EXTENDS Integers, FiniteSets, Sequences, TLC

\* Size of the process table proc[NPROC] and number of CPUs cpus[NCPU].
NPROC == 3
NCPU == 2
\* fork() is started while nextpid <= MaxPid, and on a full table (where it
\* fails unless a slot is freed meanwhile) while nextpid <= MaxPid + 1.
MaxPid == 3
\* The same bound where the scheduler is FCFS: three forks are needed to
\* have a lower slot hold the later process.
MaxPidFCFS == 4
\* The tick counter stops at MaxTicks.
MaxTicks == 2
\* The bounds on nextpid and ticks where the scheduler is PBS.
MaxPidPBS == 2
MaxTicksPBS == 1
\* The bound on nextpid where the scheduler is MLFQ.
MaxPidMLFQ == 2

Slots == 1..NPROC
CPUs == 1..NCPU

VARIABLES
  proc,       \* proc[i]: the fields of slot i of the process table
  lock,       \* lock[i]: the CPU holding proc[i].lock, 0 when free
  wait_lock,  \* the CPU holding wait_lock, 0 when free
  nextpid,    \* the pid counter
  ticks,      \* the tick counter
  cpu,        \* cpu[c]: c->proc and the position of c's scheduler loop
  th,         \* th[i]: position and locals of the kernel thread of slot i
  policy,     \* the scheduler compiled in: "DEFAULT", "FCFS", "PBS", "MLFQ"
  ret         \* <<p, call, v>> when the step returned v from call to process p

vars == <<proc, lock, wait_lock, nextpid, ticks, cpu, th, policy, ret>>

\* The inputs of the system calls and the outcomes of the memory
\* collaborator.  Where the scheduler is not the round robin the
\* collaborator succeeds and the calls are exit(0) and wait().
ForkFailures ==
  IF policy = "DEFAULT" THEN {"none", "kalloc", "pagetable", "uvmcopy"} ELSE {"none"}
ExitStatuses == IF policy = "DEFAULT" THEN {0, 1} ELSE {0}
WaitCalls == IF policy = "DEFAULT" THEN {"wait", "waitx"} ELSE {"wait"}
CopyoutResults == IF policy = "DEFAULT" THEN {0, -1} ELSE {0}

\* The first process, set by userinit() (initproc = p).
initproc == 1

\* A slot of the zero-initialised table.
ZeroProc ==
  [state |-> "UNUSED", pid |-> 0, parent |-> 0, chan |-> 0, killed |-> 0,
   xstate |-> 0, sz |-> 0, pagetable |-> 0, trapframe |-> 0,
   rtime |-> 0, ctime |-> 0, etime |-> 0, start_time |-> 0,
   Static_priority |-> 0, Times_scheduled |-> 0, running_time |-> 0,
   sleeping_time |-> 0, priority_number |-> 0, time_added |-> 0,
   no_of_ticks |-> 0]

\* A kernel thread that is nowhere: its slot holds no process.  pc is the
\* label the thread is at, sys the call it is in; idx, np, arg (pid, status),
\* kids (havekids) are the locals of that call; widx, wchan, wret those of a
\* running wakeup(wchan).  Three fields are history, read by the properties
\* only: kids0, the children the process had when it entered exit(); nwk,
\* the wakeup(initproc) calls reparent() has made; kw, set when kill() found
\* the process SLEEPING.
NoThread ==
  [pc |-> "none", sys |-> "none", idx |-> 0, np |-> 0, arg |-> 0, kids |-> 0,
   widx |-> 0, wchan |-> 0, wret |-> "none", kids0 |-> {}, nwk |-> 0, kw |-> 0]

\* context.ra = forkret: where a new process starts when first dispatched.
NewThread == [NoThread EXCEPT !.pc = "forkret"]

\* freeproc() without p->parent = 0.
freeprocKeepsParent(r) ==
  [r EXCEPT !.trapframe = 0, !.pagetable = 0, !.sz = 0, !.pid = 0,
            !.chan = 0, !.killed = 0, !.xstate = 0, !.state = "UNUSED"]

\* freeproc(p): p->lock must be held.
freeproc(r) ==
  [r EXCEPT !.trapframe = 0, !.pagetable = 0, !.sz = 0, !.pid = 0,
            !.parent = 0, !.chan = 0, !.killed = 0, !.xstate = 0,
            !.state = "UNUSED"]

\* allocpid() without nextpid = nextpid + 1.
allocpidNextStuck(n) == n

\* allocpid(): the value the counter takes after handing out pid n.
allocpidNext(n) == n + 1

\* The policy fields allocproc() sets (#ifdef FCFS, PBS, MLFQ).  No_times,
\* the dispatch count of MLFQ, is left out: no code of proc.c reads it.
allocprocPolicy(r, pol, t) ==
  IF pol = "FCFS" THEN [r EXCEPT !.start_time = t]
  ELSE IF pol = "PBS"
    THEN [r EXCEPT !.Static_priority = 60, !.Times_scheduled = 0, !.start_time = t,
                   !.running_time = -1, !.sleeping_time = -1]
  ELSE IF pol = "MLFQ"
    THEN [r EXCEPT !.priority_number = 0, !.time_added = t, !.no_of_ticks = 0]
  ELSE r

\* allocproc() from the label found: on an UNUSED slot r, with p->lock held.
\* fail is "kalloc" (no trapframe page), "pagetable" or "none".
allocprocFound(r, pid, fail, pol, t) ==
  LET r1 == [r EXCEPT !.pid = pid, !.state = "USED"]
      r2 == [r1 EXCEPT !.trapframe = 1]
      r3 == [r2 EXCEPT !.pagetable = 1, !.rtime = 0, !.etime = 0, !.ctime = t]
  IN  IF fail = "kalloc" THEN freeproc(r1)
      ELSE IF fail = "pagetable" THEN freeproc(r2)
      ELSE allocprocPolicy(r3, pol, t)

\* fork() returning -1 on a failed uvmcopy() without freeproc(np).
forkChildLeaks(r, pid, fail, pol, t, parentsz) ==
  IF fail \in {"kalloc", "pagetable"} THEN allocprocFound(r, pid, fail, pol, t)
  ELSE IF fail = "uvmcopy" THEN allocprocFound(r, pid, "none", pol, t)
  ELSE [allocprocFound(r, pid, "none", pol, t) EXCEPT !.sz = parentsz]

\* fork() from allocproc() to release(&np->lock): the child slot.
\* fail is additionally "uvmcopy".
forkChild(r, pid, fail, pol, t, parentsz) ==
  IF fail \in {"kalloc", "pagetable"} THEN allocprocFound(r, pid, fail, pol, t)
  ELSE IF fail = "uvmcopy" THEN freeproc(allocprocFound(r, pid, "none", pol, t))
  ELSE [allocprocFound(r, pid, "none", pol, t) EXCEPT !.sz = parentsz]

\* userinit(): the first process, RUNNABLE in slot initproc.
userinitProc(pol) ==
  [allocprocFound(ZeroProc, 1, "none", pol, 0) EXCEPT !.sz = 1, !.state = "RUNNABLE"]

\* A CPU at the top of scheduler(): c->proc = 0, the scan index p at
\* proc[0], and the locals of the FCFS loop (First_start, ToBeScheduled).
\* seen is history: the slots the running FCFS pass has found RUNNABLE, each
\* with the start_time it had then.  intialized is the local of the PBS loop;
\* there seen holds the slots found RUNNABLE with the fields PcbCompare()
\* reads, and undef (history) tells that the pass divided by zero.  rr_s is
\* the cursor of the MLFQ loop (slot 1 is proc[0]).
InitCpu ==
  [proc |-> 0, mode |-> "sched", p |-> 1, First_start |-> -1, ToBeScheduled |-> 0,
   seen |-> {}, intialized |-> -1, undef |-> FALSE, rr_s |-> 1]

InitWith(pol) ==
  /\ policy = pol
  /\ proc = [i \in Slots |-> IF i = initproc THEN userinitProc(pol) ELSE ZeroProc]
  /\ lock = [i \in Slots |-> 0]
  /\ wait_lock = 0
  /\ nextpid = allocpidNext(1)
  /\ ticks = 0
  /\ cpu = [c \in CPUs |-> InitCpu]
  /\ th = [i \in Slots |-> IF i = initproc THEN NewThread ELSE NoThread]
  /\ ret = <<>>

Init == InitWith("DEFAULT")

-----------------------------------------------------------------------------
\* myproc() on CPU c, and "CPU c runs its process, which is at label l".
myproc(c) == cpu[c].proc
At(c, l) == cpu[c].mode = "run" /\ th[cpu[c].proc].pc = l

\* A kernel thread back in user mode, and the step's return value: v from
\* the call p was in, or none.
UserThread == [NoThread EXCEPT !.pc = "user"]
Returns(p, v) == ret' = <<p, th[p].sys, v>>
NoReturn == ret' = <<>>

\* sched(): swtch() from the process to the scheduler of CPU c.
sched(c) == [cpu EXCEPT ![c].mode = "back"]

-----------------------------------------------------------------------------
\* scheduler(), #ifdef DEFAULT: one iteration of the for loop over proc[].
SchedulerVisit(c) ==
  LET i == cpu[c].p IN
  /\ policy = "DEFAULT"
  /\ cpu[c].mode = "sched"
  /\ lock[i] = 0
  /\ IF proc[i].state = "RUNNABLE"
       THEN /\ proc' = [proc EXCEPT ![i].state = "RUNNING"]
            /\ cpu' = [cpu EXCEPT ![c].proc = i, ![c].mode = "run"]
            /\ lock' = [lock EXCEPT ![i] = c]
       ELSE /\ cpu' = [cpu EXCEPT ![c].p = (i % NPROC) + 1]
            /\ UNCHANGED <<proc, lock>>
  /\ UNCHANGED <<wait_lock, nextpid, ticks, th, policy>>
  /\ NoReturn

\* scheduler(), #ifdef DEFAULT: after swtch() returns: c->proc = 0; release.
SchedulerBack(c) ==
  LET i == cpu[c].p IN
  /\ policy = "DEFAULT"
  /\ cpu[c].mode = "back"
  /\ cpu' = [cpu EXCEPT ![c].proc = 0, ![c].mode = "sched", ![c].p = (i % NPROC) + 1]
  /\ lock' = [lock EXCEPT ![cpu[c].proc] = 0]
  /\ UNCHANGED <<proc, wait_lock, nextpid, ticks, th, policy>>
  /\ NoReturn

\* forkret(): release the lock the scheduler took, return to user space.
Forkret(c) ==
  LET p == myproc(c) IN
  /\ At(c, "forkret")
  /\ lock' = [lock EXCEPT ![p] = 0]
  /\ th' = [th EXCEPT ![p] = UserThread]
  /\ UNCHANGED <<proc, wait_lock, nextpid, ticks, cpu, policy>>
  /\ NoReturn

\* yield() up to swtch().
Yield(c) ==
  LET p == myproc(c) IN
  /\ At(c, "user")
  /\ lock[p] = 0
  /\ lock' = [lock EXCEPT ![p] = c]
  /\ proc' = [proc EXCEPT ![p].state = "RUNNABLE"]
  /\ cpu' = sched(c)
  /\ th' = [th EXCEPT ![p] = [NoThread EXCEPT !.pc = "yield_ret", !.sys = "yield"]]
  /\ UNCHANGED <<wait_lock, nextpid, ticks, policy>>
  /\ NoReturn

\* yield() after sched() returns: release(&p->lock).
YieldRet(c) ==
  LET p == myproc(c) IN
  /\ At(c, "yield_ret")
  /\ lock' = [lock EXCEPT ![p] = 0]
  /\ th' = [th EXCEPT ![p] = UserThread]
  /\ UNCHANGED <<proc, wait_lock, nextpid, ticks, cpu, policy>>
  /\ NoReturn

-----------------------------------------------------------------------------
\* fork() is entered: allocproc() starts its scan.
SysFork(c) ==
  LET p == myproc(c) IN
  /\ At(c, "user")
  /\ LET max == IF policy = "FCFS" THEN MaxPidFCFS
                ELSE IF policy = "PBS" THEN MaxPidPBS
                ELSE IF policy = "MLFQ" THEN MaxPidMLFQ ELSE MaxPid IN
     \/ nextpid <= max
     \/ nextpid <= max + 1 /\ \A i \in Slots : proc[i].state # "UNUSED"
  /\ th' = [th EXCEPT ![p] = [NoThread EXCEPT !.pc = "fork_alloc", !.sys = "fork", !.idx = 1]]
  /\ UNCHANGED <<proc, lock, wait_lock, nextpid, ticks, cpu, policy>>
  /\ NoReturn

\* allocproc(): one iteration of the scan; on an UNUSED slot the rest of
\* allocproc() and fork() up to release(&np->lock).
ForkAlloc(c) ==
  LET p == myproc(c)
      i == th[p].idx
  IN
  /\ At(c, "fork_alloc")
  /\ lock[i] = 0
  /\ IF proc[i].state = "UNUSED"
       THEN \E fail \in ForkFailures :
              /\ proc' = [proc EXCEPT ![i] = forkChild(@, nextpid, fail, policy, ticks, proc[p].sz)]
              /\ nextpid' = allocpidNext(nextpid)
              /\ IF fail = "none"
                   THEN /\ th' = [th EXCEPT ![p].pc = "fork_link", ![p].idx = 0, ![p].np = i,
                                            ![p].arg = nextpid, ![i] = NewThread]
                        /\ NoReturn
                   ELSE /\ th' = [th EXCEPT ![p] = UserThread]
                        /\ Returns(p, -1)
       ELSE /\ IF i = NPROC
                 THEN /\ th' = [th EXCEPT ![p] = UserThread]
                      /\ Returns(p, -1)
                 ELSE /\ th' = [th EXCEPT ![p].idx = i + 1]
                      /\ NoReturn
            /\ UNCHANGED <<proc, nextpid>>
  /\ UNCHANGED <<lock, wait_lock, ticks, cpu, policy>>

\* fork(): acquire(&wait_lock); np->parent = p; release(&wait_lock).
ForkLink(c) ==
  LET p == myproc(c) IN
  /\ At(c, "fork_link")
  /\ wait_lock = 0
  /\ proc' = [proc EXCEPT ![th[p].np].parent = p]
  /\ th' = [th EXCEPT ![p].pc = "fork_run"]
  /\ UNCHANGED <<lock, wait_lock, nextpid, ticks, cpu, policy>>
  /\ NoReturn

\* fork(): acquire(&np->lock); np->state = RUNNABLE; release; return pid,
\* under MLFQ after a yield() when the caller is not at level 0.
ForkRun(c) ==
  LET p == myproc(c) IN
  /\ At(c, "fork_run")
  /\ lock[th[p].np] = 0
  /\ IF policy = "MLFQ" /\ proc[p].priority_number # 0
       THEN /\ proc' = [proc EXCEPT ![th[p].np].state = "RUNNABLE", ![p].no_of_ticks = 0]
            /\ th' = [th EXCEPT ![p].pc = "fork_yield", ![p].np = 0]
            /\ NoReturn
       ELSE /\ proc' = [proc EXCEPT ![th[p].np].state = "RUNNABLE"]
            /\ th' = [th EXCEPT ![p] = UserThread]
            /\ Returns(p, th[p].arg)
  /\ UNCHANGED <<lock, wait_lock, nextpid, ticks, cpu, policy>>

\* fork(), #ifdef MLFQ: yield() up to swtch().
ForkYield(c) ==
  LET p == myproc(c) IN
  /\ At(c, "fork_yield")
  /\ lock[p] = 0
  /\ lock' = [lock EXCEPT ![p] = c]
  /\ proc' = [proc EXCEPT ![p].state = "RUNNABLE"]
  /\ cpu' = sched(c)
  /\ th' = [th EXCEPT ![p].pc = "fork_ret"]
  /\ UNCHANGED <<wait_lock, nextpid, ticks, policy>>
  /\ NoReturn

\* fork(), #ifdef MLFQ: yield() after sched() returns: release(&p->lock);
\* return pid.
ForkYieldRet(c) ==
  LET p == myproc(c) IN
  /\ At(c, "fork_ret")
  /\ lock' = [lock EXCEPT ![p] = 0]
  /\ th' = [th EXCEPT ![p] = UserThread]
  /\ Returns(p, th[p].arg)
  /\ UNCHANGED <<proc, wait_lock, nextpid, ticks, cpu, policy>>

-----------------------------------------------------------------------------
\* wakeup() that leaves the sleeper as it is.
wakeupSlotNot(r, chan) == r

\* wakeup(chan): one iteration of the loop over proc[]; the caller's own slot
\* is skipped without locking.  The record of slot r after the visit.
wakeupSlot(r, chan) ==
  IF r.state = "SLEEPING" /\ r.chan = chan
    THEN IF policy = "PBS"
           THEN [r EXCEPT !.state = "RUNNABLE", !.sleeping_time = ticks - @]
         ELSE IF policy = "MLFQ"
           THEN [r EXCEPT !.state = "RUNNABLE", !.time_added = ticks, !.no_of_ticks = 0]
         ELSE [r EXCEPT !.state = "RUNNABLE"]
    ELSE r

\* wakeup() reading p->state without acquire(&p->lock).
WakeupNoLock(c) ==
  LET p == myproc(c)
      i == th[p].widx
  IN
  /\ At(c, "wakeup")
  /\ proc' = IF i = p THEN proc ELSE [proc EXCEPT ![i] = wakeupSlot(@, th[p].wchan)]
  /\ th' = IF i = NPROC
             THEN [th EXCEPT ![p].pc = th[p].wret, ![p].widx = 0, ![p].wchan = 0,
                             ![p].wret = "none"]
             ELSE [th EXCEPT ![p].widx = i + 1]
  /\ UNCHANGED <<lock, wait_lock, nextpid, ticks, cpu, policy>>
  /\ NoReturn

\* wakeup(chan): one iteration of the loop, see wakeupSlot.
Wakeup(c) ==
  LET p == myproc(c)
      i == th[p].widx
  IN
  /\ At(c, "wakeup")
  /\ i = p \/ lock[i] = 0
  /\ proc' = IF i = p THEN proc ELSE [proc EXCEPT ![i] = wakeupSlot(@, th[p].wchan)]
  /\ th' = IF i = NPROC
             THEN [th EXCEPT ![p].pc = th[p].wret, ![p].widx = 0, ![p].wchan = 0,
                             ![p].wret = "none"]
             ELSE [th EXCEPT ![p].widx = i + 1]
  /\ UNCHANGED <<lock, wait_lock, nextpid, ticks, cpu, policy>>
  /\ NoReturn

\* The slots from index i on whose parent is p.
ChildrenFrom(p, i) == {j \in Slots : j >= i /\ proc[j].parent = p}
Min(S) == CHOOSE x \in S : \A y \in S : x <= y

\* exit(status) up to acquire(&wait_lock); never called by initproc
\* (panic("init exiting")).
SysExit(c) ==
  LET p == myproc(c) IN
  /\ At(c, "user")
  /\ p # initproc
  /\ wait_lock = 0
  /\ wait_lock' = c
  /\ \E status \in ExitStatuses :
       th' = [th EXCEPT ![p] = [NoThread EXCEPT !.pc = "reparent", !.sys = "exit",
                                                !.idx = 1, !.arg = status,
                                                !.kids0 = ChildrenFrom(p, 1)]]
  /\ UNCHANGED <<proc, lock, nextpid, ticks, cpu, policy>>
  /\ NoReturn

\* reparent() without the assignment to pp->parent.
reparentSlotNot(r) == r

\* reparent(): pp->parent = initproc.
reparentSlot(r) == [r EXCEPT !.parent = initproc]

\* reparent(p), called with wait_lock held: up to the next wakeup(initproc),
\* or, when no child is left, exit()'s wakeup(p->parent).
Reparent(c) ==
  LET p == myproc(c)
      kids == ChildrenFrom(p, th[p].idx)
  IN
  /\ At(c, "reparent")
  /\ IF kids # {}
       THEN LET pp == Min(kids) IN
            /\ proc' = [proc EXCEPT ![pp] = reparentSlot(@)]
            /\ th' = [th EXCEPT ![p].pc = "wakeup", ![p].idx = pp + 1, ![p].widx = 1,
                                ![p].wchan = initproc, ![p].wret = "reparent",
                                ![p].nwk = @ + 1]
       ELSE /\ th' = [th EXCEPT ![p].pc = "wakeup", ![p].idx = 0, ![p].widx = 1,
                                ![p].wchan = proc[p].parent, ![p].wret = "exit_zombie"]
            /\ UNCHANGED proc
  /\ UNCHANGED <<lock, wait_lock, nextpid, ticks, cpu, policy>>
  /\ NoReturn

\* exit(): acquire(&p->lock); xstate, ZOMBIE, etime; release(&wait_lock); sched().
ExitZombie(c) ==
  LET p == myproc(c) IN
  /\ At(c, "exit_zombie")
  /\ lock[p] = 0
  /\ lock' = [lock EXCEPT ![p] = c]
  /\ proc' = [proc EXCEPT ![p].xstate = th[p].arg, ![p].state = "ZOMBIE", ![p].etime = ticks]
  /\ wait_lock' = 0
  /\ cpu' = sched(c)
  /\ th' = [th EXCEPT ![p].pc = "dead"]
  /\ UNCHANGED <<nextpid, ticks, policy>>
  /\ NoReturn

-----------------------------------------------------------------------------
\* wait(addr) and waitx(addr, rtime, wtime) up to acquire(&wait_lock).
SysWait(c) ==
  LET p == myproc(c) IN
  /\ At(c, "user")
  /\ wait_lock = 0
  /\ wait_lock' = c
  /\ \E s \in WaitCalls :
       th' = [th EXCEPT ![p] = [NoThread EXCEPT !.pc = "wait_scan", !.sys = s, !.idx = 1]]
  /\ UNCHANGED <<proc, lock, nextpid, ticks, cpu, policy>>
  /\ NoReturn

\* wait()/waitx(): the scan up to and including the next child of p; a ZOMBIE
\* child is reaped unless copyout() fails.
WaitChild(c) ==
  LET p == myproc(c)
      kids == ChildrenFrom(p, th[p].idx)
      np == Min(kids)
  IN
  /\ At(c, "wait_scan")
  /\ kids # {}
  /\ lock[np] = 0
  /\ IF proc[np].state = "ZOMBIE"
       THEN \E copyout \in CopyoutResults :
              /\ wait_lock' = 0
              /\ IF copyout < 0
                   THEN /\ th' = [th EXCEPT ![p] = UserThread]
                        /\ Returns(p, -1)
                        /\ UNCHANGED proc
                   ELSE /\ th' = [th EXCEPT ![p] = UserThread, ![np] = NoThread]
                        /\ Returns(p, proc[np].pid)
                        /\ proc' = [proc EXCEPT ![np] = freeproc(@)]
       ELSE /\ th' = [th EXCEPT ![p].idx = np + 1, ![p].kids = 1]
            /\ NoReturn
            /\ UNCHANGED <<proc, wait_lock>>
  /\ UNCHANGED <<lock, nextpid, ticks, cpu, policy>>

\* The test without p->killed.
waitGivesUpUnkilled(havekids, killed) == havekids = 0

\* wait()/waitx(): if(!havekids || p->killed).
waitGivesUp(havekids, killed) == havekids = 0 \/ killed = 1

\* wait()/waitx() whose sleep() does not release(lk).
WaitDecideKeepsWaitLock(c) ==
  LET p == myproc(c) IN
  /\ At(c, "wait_scan")
  /\ ChildrenFrom(p, th[p].idx) = {}
  /\ IF waitGivesUp(th[p].kids, proc[p].killed)
       THEN /\ wait_lock' = 0
            /\ th' = [th EXCEPT ![p] = UserThread]
            /\ Returns(p, -1)
            /\ UNCHANGED lock
       ELSE /\ lock[p] = 0
            /\ lock' = [lock EXCEPT ![p] = c]
            /\ UNCHANGED wait_lock
            /\ th' = [th EXCEPT ![p].pc = "sleep_go", ![p].idx = 0, ![p].kids = 0,
                                ![p].wchan = p]
            /\ NoReturn
  /\ UNCHANGED <<proc, nextpid, ticks, cpu, policy>>

\* wait()/waitx(): the scan is over without a ZOMBIE child: return -1, or
\* sleep(p, &wait_lock) up to release(lk).
WaitDecide(c) ==
  LET p == myproc(c) IN
  /\ At(c, "wait_scan")
  /\ ChildrenFrom(p, th[p].idx) = {}
  /\ IF waitGivesUp(th[p].kids, proc[p].killed)
       THEN /\ wait_lock' = 0
            /\ th' = [th EXCEPT ![p] = UserThread]
            /\ Returns(p, -1)
            /\ UNCHANGED lock
       ELSE /\ lock[p] = 0
            /\ lock' = [lock EXCEPT ![p] = c]
            /\ wait_lock' = 0
            /\ th' = [th EXCEPT ![p].pc = "sleep_go", ![p].idx = 0, ![p].kids = 0,
                                ![p].wchan = p]
            /\ NoReturn
  /\ UNCHANGED <<proc, nextpid, ticks, cpu, policy>>

\* sleep(): the fields of the slot going to sleep on chan at tick t.
sleepSlot(r, chan, pol, t) ==
  LET r1 == [r EXCEPT !.chan = chan, !.state = "SLEEPING"] IN
  IF pol = "PBS"
    THEN [r1 EXCEPT !.running_time = t - r.running_time, !.sleeping_time = t]
    ELSE r1

\* sleep(): p->chan = chan; p->state = SLEEPING; sched().
SleepGo(c) ==
  LET p == myproc(c) IN
  /\ At(c, "sleep_go")
  /\ proc' = [proc EXCEPT ![p] = sleepSlot(@, th[p].wchan, policy, ticks)]
  /\ cpu' = sched(c)
  /\ th' = [th EXCEPT ![p].pc = "sleep_ret", ![p].wchan = 0]
  /\ UNCHANGED <<lock, wait_lock, nextpid, ticks, policy>>
  /\ NoReturn

\* sleep() after sched() returns, going on to acquire(lk) with p->lock held.
SleepRetKeepsLock(c) ==
  LET p == myproc(c) IN
  /\ At(c, "sleep_ret")
  /\ proc' = [proc EXCEPT ![p].chan = 0]
  /\ th' = [th EXCEPT ![p].pc = "sleep_lk"]
  /\ UNCHANGED <<lock, wait_lock, nextpid, ticks, cpu, policy>>
  /\ NoReturn

\* sleep() after sched() returns: p->chan = 0; release(&p->lock).
SleepRet(c) ==
  LET p == myproc(c) IN
  /\ At(c, "sleep_ret")
  /\ proc' = [proc EXCEPT ![p].chan = 0]
  /\ lock' = [lock EXCEPT ![p] = 0]
  /\ th' = [th EXCEPT ![p].pc = "sleep_lk"]
  /\ UNCHANGED <<wait_lock, nextpid, ticks, cpu, policy>>
  /\ NoReturn

\* sleep(): acquire(lk), then back in the for(;;) loop of wait()/waitx().
SleepRelock(c) ==
  LET p == myproc(c) IN
  /\ At(c, "sleep_lk")
  /\ wait_lock = 0
  /\ wait_lock' = c
  /\ th' = [th EXCEPT ![p].pc = "wait_scan", ![p].idx = 1]
  /\ UNCHANGED <<proc, lock, nextpid, ticks, cpu, policy>>
  /\ NoReturn

-----------------------------------------------------------------------------
\* The pids user code passes to kill(): any int; 0 and MaxPid + NCPU + 1
\* stand for the values no process was given.
KillPids == {0, 2, MaxPid + NCPU + 1}

\* kill(pid) is entered.
SysKill(c) ==
  LET p == myproc(c) IN
  /\ At(c, "user")
  /\ \E pid \in KillPids :
       th' = [th EXCEPT ![p] = [NoThread EXCEPT !.pc = "kill_scan", !.sys = "kill",
                                                !.idx = 1, !.arg = pid]]
  /\ UNCHANGED <<proc, lock, wait_lock, nextpid, ticks, cpu, policy>>
  /\ NoReturn

\* kill() without the wake up of a SLEEPING process.
killSlotNoWake(r) == [r EXCEPT !.killed = 1]

\* kill(): the slot whose pid matched, after p->killed = 1 and the wake up.
killSlot(r) ==
  [r EXCEPT !.killed = 1, !.state = IF r.state = "SLEEPING" THEN "RUNNABLE" ELSE r.state]

\* kill(): one iteration of the loop over proc[].
Kill(c) ==
  LET p == myproc(c)
      i == th[p].idx
  IN
  /\ At(c, "kill_scan")
  /\ lock[i] = 0
  /\ IF proc[i].pid = th[p].arg
       THEN /\ proc' = [proc EXCEPT ![i] = killSlot(@)]
            /\ th' = [th EXCEPT ![p] = UserThread,
                                ![i].kw = IF i # p /\ proc[i].state = "SLEEPING" THEN 1 ELSE @]
            /\ Returns(p, 0)
       ELSE /\ IF i = NPROC
                 THEN /\ th' = [th EXCEPT ![p] = UserThread]
                      /\ Returns(p, -1)
                 ELSE /\ th' = [th EXCEPT ![p].idx = i + 1]
                      /\ NoReturn
            /\ UNCHANGED proc
  /\ UNCHANGED <<lock, wait_lock, nextpid, ticks, cpu, policy>>

-----------------------------------------------------------------------------
\* The comparison that also lets an equal start_time displace the candidate.
fcfsEarlierOrEqual(start_time, First_start) == start_time <= First_start

\* scheduler(), #ifdef FCFS: if(p->start_time < First_start).
fcfsEarlier(start_time, First_start) == start_time < First_start

\* The iteration that keeps the lock of a candidate it displaces.
FcfsVisitKeepsLock(c) ==
  LET i == cpu[c].p
      st == proc[i].start_time
      first == cpu[c].First_start = -1
      take == proc[i].state = "RUNNABLE" /\ (first \/ fcfsEarlier(st, cpu[c].First_start))
      c1 == IF proc[i].state = "RUNNABLE"
              THEN [cpu[c] EXCEPT !.seen = @ \cup {<<i, st>>}] ELSE cpu[c]
      c2 == IF take THEN [c1 EXCEPT !.First_start = st, !.ToBeScheduled = i] ELSE c1
  IN
  /\ policy = "FCFS"
  /\ cpu[c].mode = "sched"
  /\ lock[i] = 0
  /\ lock' = IF ~take THEN lock ELSE [lock EXCEPT ![i] = c]
  /\ cpu' = [cpu EXCEPT ![c] =
               IF i < NPROC THEN [c2 EXCEPT !.p = i + 1]
               ELSE IF c2.First_start = -1 THEN InitCpu
               ELSE [c2 EXCEPT !.mode = "pick"]]
  /\ UNCHANGED <<proc, wait_lock, nextpid, ticks, th, policy>>
  /\ NoReturn

\* scheduler(), #ifdef FCFS: one iteration of the for loop over proc[].  The
\* lock of the candidate ToBeScheduled stays held; after the last slot the
\* pass either starts over (no slot was RUNNABLE) or goes on to dispatch.
FcfsVisit(c) ==
  LET i == cpu[c].p
      st == proc[i].start_time
      first == cpu[c].First_start = -1
      take == proc[i].state = "RUNNABLE" /\ (first \/ fcfsEarlier(st, cpu[c].First_start))
      c1 == IF proc[i].state = "RUNNABLE"
              THEN [cpu[c] EXCEPT !.seen = @ \cup {<<i, st>>}] ELSE cpu[c]
      c2 == IF take THEN [c1 EXCEPT !.First_start = st, !.ToBeScheduled = i] ELSE c1
  IN
  /\ policy = "FCFS"
  /\ cpu[c].mode = "sched"
  /\ lock[i] = 0
  /\ lock' = IF ~take THEN lock
             ELSE IF first THEN [lock EXCEPT ![i] = c]
             ELSE [lock EXCEPT ![i] = c, ![cpu[c].ToBeScheduled] = 0]
  /\ cpu' = [cpu EXCEPT ![c] =
               IF i < NPROC THEN [c2 EXCEPT !.p = i + 1]
               ELSE IF c2.First_start = -1 THEN InitCpu
               ELSE [c2 EXCEPT !.mode = "pick"]]
  /\ UNCHANGED <<proc, wait_lock, nextpid, ticks, th, policy>>
  /\ NoReturn

\* scheduler(), #ifdef FCFS: ToBeScheduled->state = RUNNING; c->proc; swtch().
FcfsDispatch(c) ==
  LET s == cpu[c].ToBeScheduled IN
  /\ policy = "FCFS"
  /\ cpu[c].mode = "pick"
  /\ proc' = [proc EXCEPT ![s].state = "RUNNING"]
  /\ cpu' = [cpu EXCEPT ![c] = [InitCpu EXCEPT !.proc = s, !.mode = "run", !.ToBeScheduled = s]]
  /\ UNCHANGED <<lock, wait_lock, nextpid, ticks, th, policy>>
  /\ NoReturn

\* scheduler(), #ifdef FCFS: after swtch() returns: release, next pass.
FcfsBack(c) ==
  /\ policy = "FCFS"
  /\ cpu[c].mode = "back"
  /\ lock' = [lock EXCEPT ![cpu[c].ToBeScheduled] = 0]
  /\ cpu' = [cpu EXCEPT ![c] = InitCpu]
  /\ UNCHANGED <<proc, wait_lock, nextpid, ticks, th, policy>>
  /\ NoReturn

-----------------------------------------------------------------------------
\* The quotient a / b of C for b # 0: the division truncates toward zero.
Abs(a) == IF a < 0 THEN -a ELSE a
CDiv(a, b) ==
  IF (a < 0) = (b < 0) THEN Abs(a) \div Abs(b) ELSE -(Abs(a) \div Abs(b))

\* What a division by zero may leave in niceness.  The behaviour is
\* undefined in C; the divide instruction of the target yields -1.
UndefinedQuotients == {-1, 0}

\* PSBPriority() without the two tests on Value.
PSBPriorityNoClamp(r, u) ==
  LET niceness ==
        IF r.sleeping_time = -1 /\ r.running_time = -1 THEN 5
        ELSE IF r.running_time + r.sleeping_time = 0 THEN u
        ELSE CDiv(r.sleeping_time * 10, r.running_time + r.sleeping_time)
  IN  r.Static_priority - niceness + 5

\* PSBPriority(p): the dynamic priority of slot record r; u is the outcome
\* of the division where the divisor is zero.
PSBPriority(r, u) ==
  LET niceness ==
        IF r.sleeping_time = -1 /\ r.running_time = -1 THEN 5
        ELSE IF r.running_time + r.sleeping_time = 0 THEN u
        ELSE CDiv(r.sleeping_time * 10, r.running_time + r.sleeping_time)
      Value == r.Static_priority - niceness + 5
  IN  IF Value > 100 THEN 100 ELSE IF Value < 0 THEN 0 ELSE Value

\* The values of <<sleeping_time, running_time>> a slot can hold: both -1
\* (allocproc(), set_priority_i()), a sleeping time with the fresh running
\* time left by set_priority_i() on a sleeper that wakeup() then woke, and
\* the pairs left by the scheduler, sleep() and wakeup().
PriorityTimes ==
  {<<-1, -1>>, <<1, -1>>, <<2, -1>>, <<3, -1>>, <<0, 0>>, <<0, 1>>, <<0, 20>>,
   <<1, 0>>, <<1, 1>>, <<1, 2>>, <<2, 1>>, <<7, 3>>, <<80, 20>>, <<20, 80>>,
   <<99, 1>>, <<1, 99>>}

\* PSBPriority() applied to one slot whose fields are drawn from
\* 0..100 and PriorityTimes.
InitPriority ==
  /\ policy = "PBS"
  /\ lock = [i \in Slots |-> 0]
  /\ wait_lock = 0
  /\ nextpid = allocpidNext(1)
  /\ ticks = 0
  /\ cpu = [c \in CPUs |-> InitCpu]
  /\ th = [i \in Slots |-> IF i = initproc THEN NewThread ELSE NoThread]
  /\ ret = <<>>
  /\ \E sp \in 0..100, tm \in PriorityTimes :
       proc = [i \in Slots |->
                 IF i = initproc
                   THEN [userinitProc("PBS") EXCEPT !.Static_priority = sp,
                                                    !.sleeping_time = tm[1],
                                                    !.running_time = tm[2]]
                   ELSE ZeroProc]

\* One call of PSBPriority(&proc[initproc]).
PriorityCall ==
  /\ ret = <<>>
  /\ \E u \in UndefinedQuotients :
       ret' = <<initproc, "PSBPriority", PSBPriority(proc[initproc], u)>>
  /\ UNCHANGED <<proc, lock, wait_lock, nextpid, ticks, cpu, th, policy>>

NextPriority == PriorityCall

SpecPriority == InitPriority /\ [][NextPriority]_vars

-----------------------------------------------------------------------------
\* A dispatch is taken while the slot's Times_scheduled is below this.
MaxTimesScheduled == 3

\* PSBPriority(p) divides by zero.
ZeroDivisor(r) ==
  ~(r.sleeping_time = -1 /\ r.running_time = -1) /\ r.running_time + r.sleeping_time = 0

\* The comparison by dynamic priority alone.
PcbComparePriorityOnly(p, q, up, uq) ==
  IF PSBPriority(p, up) > PSBPriority(q, uq) THEN 1 ELSE -1

\* PcbCompare(p, q): -1 when p is to run before q, 1 when q is to run before
\* p; up and uq are the outcomes of a division by zero in PSBPriority().
PcbCompare(p, q, up, uq) ==
  LET p_priority == PSBPriority(p, up)
      q_priority == PSBPriority(q, uq)
  IN  IF p_priority < q_priority THEN -1
      ELSE IF p_priority > q_priority THEN 1
      ELSE IF p.Times_scheduled > q.Times_scheduled THEN 1
      ELSE IF q.Times_scheduled > p.Times_scheduled THEN -1
      ELSE IF p.start_time < q.start_time THEN -1
      ELSE IF q.start_time < p.start_time THEN 1
      ELSE -1

\* The fields of slot i that PcbCompare() reads.
PbsFields(i) ==
  <<i, proc[i].Static_priority, proc[i].sleeping_time, proc[i].running_time,
    proc[i].Times_scheduled, proc[i].start_time>>

\* scheduler(), #ifdef PBS: one iteration of the for loop over proc[].  The
\* lock of the candidate ToBeScheduled stays held; after the last slot the
\* pass either starts over (no slot was RUNNABLE) or goes on to dispatch.
PbsVisit(c) ==
  LET i == cpu[c].p
      tbs == cpu[c].ToBeScheduled
      runnable == proc[i].state = "RUNNABLE"
      first == cpu[c].intialized = -1
  IN
  /\ policy = "PBS"
  /\ cpu[c].mode = "sched"
  /\ lock[i] = 0
  /\ \E up, uq \in UndefinedQuotients :
       LET compared == runnable /\ ~first
           take == runnable /\ (first \/ PcbCompare(proc[tbs], proc[i], up, uq) > 0)
           c1 == IF runnable THEN [cpu[c] EXCEPT !.seen = @ \cup {PbsFields(i)}] ELSE cpu[c]
           c2 == IF compared /\ (ZeroDivisor(proc[tbs]) \/ ZeroDivisor(proc[i]))
                   THEN [c1 EXCEPT !.undef = TRUE] ELSE c1
           c3 == IF take THEN [c2 EXCEPT !.ToBeScheduled = i, !.intialized = 0] ELSE c2
       IN
       /\ (~compared \/ (~ZeroDivisor(proc[tbs]) /\ ~ZeroDivisor(proc[i]))) =>
            (up = -1 /\ uq = -1)
       /\ (compared /\ ~ZeroDivisor(proc[tbs])) => up = -1
       /\ (compared /\ ~ZeroDivisor(proc[i])) => uq = -1
       /\ lock' = IF ~take THEN lock
                  ELSE IF first THEN [lock EXCEPT ![i] = c]
                  ELSE [lock EXCEPT ![i] = c, ![tbs] = 0]
       /\ cpu' = [cpu EXCEPT ![c] =
                    IF i < NPROC THEN [c3 EXCEPT !.p = i + 1]
                    ELSE IF c3.intialized = -1 THEN InitCpu
                    ELSE [c3 EXCEPT !.mode = "pick"]]
  /\ UNCHANGED <<proc, wait_lock, nextpid, ticks, th, policy>>
  /\ NoReturn

\* The dispatch that leaves Times_scheduled as it is.
pbsDispatchSlotNoCount(r, t) ==
  [r EXCEPT !.state = "RUNNING", !.sleeping_time = 0, !.running_time = t]

\* scheduler(), #ifdef PBS: the slot chosen, at tick t: RUNNING,
\* Times_scheduled++, sleeping_time = 0, running_time = ticks.
pbsDispatchSlot(r, t) ==
  [r EXCEPT !.state = "RUNNING", !.Times_scheduled = @ + 1, !.sleeping_time = 0,
            !.running_time = t]

\* scheduler(), #ifdef PBS: from the end of the for loop to swtch().
PbsDispatch(c) ==
  LET s == cpu[c].ToBeScheduled IN
  /\ policy = "PBS"
  /\ cpu[c].mode = "pick"
  /\ proc[s].Times_scheduled < MaxTimesScheduled
  /\ proc' = [proc EXCEPT ![s] = pbsDispatchSlot(@, ticks)]
  /\ cpu' = [cpu EXCEPT ![c] = [InitCpu EXCEPT !.proc = s, !.mode = "run", !.ToBeScheduled = s]]
  /\ UNCHANGED <<lock, wait_lock, nextpid, ticks, th, policy>>
  /\ NoReturn

\* scheduler(), #ifdef PBS: after swtch() returns: release, next pass.
PbsBack(c) ==
  /\ policy = "PBS"
  /\ cpu[c].mode = "back"
  /\ lock' = [lock EXCEPT ![cpu[c].ToBeScheduled] = 0]
  /\ cpu' = [cpu EXCEPT ![c] = [InitCpu EXCEPT !.ToBeScheduled = cpu[c].ToBeScheduled]]
  /\ UNCHANGED <<proc, wait_lock, nextpid, ticks, th, policy>>
  /\ NoReturn

\* The arguments user code passes to set_priority: priorities below, in and
\* above 0..100, and the pid of a process and of none.
SetPriorityValues == {-1, 2, 80, 101}
SetPriorityPids == {2, MaxPid + NCPU + 1}

\* set_priority_i(priority, pid) is entered: return 1 for a priority outside
\* 0..100, else the scan starts.
SysSetPriority(c) ==
  LET p == myproc(c) IN
  /\ policy = "PBS"
  /\ At(c, "user")
  /\ \E priority \in SetPriorityValues, pid \in SetPriorityPids :
       LET t == [NoThread EXCEPT !.pc = "setp_scan", !.sys = "set_priority",
                                 !.idx = 1, !.arg = pid, !.np = priority]
       IN  IF priority < 0 \/ priority > 100
             THEN /\ th' = [th EXCEPT ![p] = UserThread]
                  /\ ret' = <<p, "set_priority", 1>>
             ELSE /\ th' = [th EXCEPT ![p] = t]
                  /\ NoReturn
  /\ UNCHANGED <<proc, lock, wait_lock, nextpid, ticks, cpu, policy>>

\* set_priority_i(): the slot found, after the three assignments.
setPrioritySlot(r, priority) ==
  [r EXCEPT !.Static_priority = priority, !.running_time = -1, !.sleeping_time = -1]

\* set_priority_i(): if(priority > old_priority) yield();
setPriorityYields(priority, old_priority) == priority > old_priority

\* set_priority_i(): one iteration of the loop over proc[]; on the slot
\* found the rest of the function up to yield() or the return.
SetPriority(c) ==
  LET p == myproc(c)
      i == th[p].idx
      priority == th[p].np
      old_priority == proc[i].Static_priority
  IN
  /\ At(c, "setp_scan")
  /\ lock[i] = 0
  /\ IF proc[i].state \in {"RUNNABLE", "SLEEPING"} /\ proc[i].pid = th[p].arg
       THEN /\ proc' = [proc EXCEPT ![i] = setPrioritySlot(@, priority)]
            /\ IF setPriorityYields(priority, old_priority)
                 THEN /\ th' = [th EXCEPT ![p].pc = "setp_yield", ![p].idx = 0,
                                          ![p].arg = old_priority]
                      /\ NoReturn
                 ELSE /\ th' = [th EXCEPT ![p] = UserThread]
                      /\ Returns(p, old_priority)
       ELSE /\ IF i = NPROC
                 THEN /\ th' = [th EXCEPT ![p] = UserThread]
                      /\ Returns(p, 2)
                 ELSE /\ th' = [th EXCEPT ![p].idx = i + 1]
                      /\ NoReturn
            /\ UNCHANGED proc
  /\ UNCHANGED <<lock, wait_lock, nextpid, ticks, cpu, policy>>

\* set_priority_i(): yield() up to swtch().
SetPriorityYield(c) ==
  LET p == myproc(c) IN
  /\ At(c, "setp_yield")
  /\ lock[p] = 0
  /\ lock' = [lock EXCEPT ![p] = c]
  /\ proc' = [proc EXCEPT ![p].state = "RUNNABLE"]
  /\ cpu' = sched(c)
  /\ th' = [th EXCEPT ![p].pc = "setp_ret"]
  /\ UNCHANGED <<wait_lock, nextpid, ticks, policy>>
  /\ NoReturn

\* set_priority_i(): yield() after sched() returns: release(&p->lock);
\* return old_priority.
SetPriorityRet(c) ==
  LET p == myproc(c) IN
  /\ At(c, "setp_ret")
  /\ lock' = [lock EXCEPT ![p] = 0]
  /\ th' = [th EXCEPT ![p] = UserThread]
  /\ Returns(p, th[p].arg)
  /\ UNCHANGED <<proc, wait_lock, nextpid, ticks, cpu, policy>>

-----------------------------------------------------------------------------
\* UpgradePolicy(): Max_wait[l + 1] is the wait after which a RUNNABLE slot
\* of level l moves up.
Max_wait == <<0, 10, 30, 100, 150>>

\* The aging that moves a slot up whatever its state.
upgradeSlotAnyState(r, t) ==
  IF r.priority_number # 0 /\ t - r.time_added > Max_wait[r.priority_number + 1]
    THEN [r EXCEPT !.time_added = t, !.priority_number = @ - 1]
    ELSE r

\* UpgradePolicy(): the body of the loop for the slot record r at tick t.
upgradeSlot(r, t) ==
  IF r.state = "RUNNABLE" /\ r.priority_number # 0
     /\ t - r.time_added > Max_wait[r.priority_number + 1]
    THEN [r EXCEPT !.time_added = t, !.priority_number = @ - 1]
    ELSE r

\* The scan that also takes a slot whose time_added is equal.
mlfqScanSlotLast(r, k, acc) ==
  IF r.state = "RUNNABLE" /\ r.priority_number = acc.level
    THEN IF acc.minimum_time = 0 \/ r.time_added <= acc.minimum_time
           THEN [acc EXCEPT !.minimum_time = r.time_added, !.toSchedule = k]
           ELSE acc
    ELSE acc

\* scheduler(), #ifdef MLFQ: the body of the inner loop for slot k with
\* record r; acc holds the level i scanned, minimum_time and toSchedule.
mlfqScanSlot(r, k, acc) ==
  IF r.state = "RUNNABLE" /\ r.priority_number = acc.level
    THEN IF acc.minimum_time = 0 \/ r.time_added < acc.minimum_time
           THEN [acc EXCEPT !.minimum_time = r.time_added, !.toSchedule = k]
           ELSE acc
    ELSE acc

\* The inner loop from slot k on.
RECURSIVE mlfqScanFrom(_, _)
mlfqScanFrom(k, acc) ==
  IF k > NPROC THEN acc ELSE mlfqScanFrom(k + 1, mlfqScanSlot(proc[k], k, acc))

\* The outer loop from level i on: <<found, toSchedule>>, found telling
\* that the loop left by goto Schedu.
RECURSIVE mlfqLevelsFrom(_, _)
mlfqLevelsFrom(i, toSchedule) ==
  IF i > 3 THEN <<FALSE, toSchedule>>
  ELSE LET acc == mlfqScanFrom(1, [level |-> i, minimum_time |-> 0,
                                   toSchedule |-> toSchedule])
       IN  IF acc.minimum_time # 0 THEN <<TRUE, acc.toSchedule>>
           ELSE mlfqLevelsFrom(i + 1, acc.toSchedule)

\* scheduler(), #ifdef MLFQ: the top of the loop: c->proc = 0 and
\* UpgradePolicy().  No lock is taken; the loop over proc[] is one step.
MlfqUpgrade(c) ==
  /\ policy = "MLFQ"
  /\ cpu[c].mode = "sched"
  /\ proc' = [i \in Slots |-> upgradeSlot(proc[i], ticks)]
  /\ cpu' = [cpu EXCEPT ![c].mode = "select", ![c].proc = 0]
  /\ UNCHANGED <<lock, wait_lock, nextpid, ticks, th, policy>>
  /\ NoReturn

\* scheduler(), #ifdef MLFQ: the loop over the levels 0..3, leaving by goto
\* Schedu or falling into the round robin loop.  No lock is taken.
MlfqSelect(c) ==
  LET res == mlfqLevelsFrom(0, cpu[c].ToBeScheduled) IN
  /\ policy = "MLFQ"
  /\ cpu[c].mode = "select"
  /\ cpu' = [cpu EXCEPT ![c].mode = IF res[1] THEN "pick" ELSE "rr",
                         ![c].ToBeScheduled = res[2]]
  /\ UNCHANGED <<proc, lock, wait_lock, nextpid, ticks, th, policy>>
  /\ NoReturn

\* scheduler(), #ifdef MLFQ: one iteration of while(1): proc[rr_s] is taken
\* if RUNNABLE, and the cursor moves on.
MlfqRoundRobin(c) ==
  LET k == cpu[c].rr_s IN
  /\ policy = "MLFQ"
  /\ cpu[c].mode = "rr"
  /\ cpu' = [cpu EXCEPT ![c].rr_s = (k % NPROC) + 1,
                         ![c].ToBeScheduled = IF proc[k].state = "RUNNABLE" THEN k ELSE @,
                         ![c].mode = IF proc[k].state = "RUNNABLE" THEN "pick" ELSE "rr"]
  /\ UNCHANGED <<proc, lock, wait_lock, nextpid, ticks, th, policy>>
  /\ NoReturn

\* scheduler(), #ifdef MLFQ, from Schedu: acquire(&toSchedule->lock);
\* c->proc; RUNNING; time_added = 0; swtch().  The state is not looked at
\* again.  swtch() into a slot found RUNNABLE or SLEEPING resumes the context
\* its sched() saved.  Into a slot found ZOMBIE it resumes exit(), which
\* panics; into a slot found RUNNING, USED or UNUSED it loads a context that
\* is in use on another CPU or belongs to no process, which is undefined: in
\* these cases CPU c is lost to the model, holding the lock.
MlfqDispatch(c) ==
  LET s == cpu[c].ToBeScheduled IN
  /\ policy = "MLFQ"
  /\ cpu[c].mode = "pick"
  /\ lock[s] = 0
  /\ lock' = [lock EXCEPT ![s] = c]
  /\ proc' = [proc EXCEPT ![s].state = "RUNNING", ![s].time_added = 0]
  /\ cpu' = [cpu EXCEPT ![c].proc = s,
                         ![c].mode = IF proc[s].state \in {"RUNNABLE", "SLEEPING"}
                                       THEN "run" ELSE "lost"]
  /\ UNCHANGED <<wait_lock, nextpid, ticks, th, policy>>
  /\ NoReturn

\* scheduler(), #ifdef MLFQ: after swtch() returns: release, next pass.
MlfqBack(c) ==
  /\ policy = "MLFQ"
  /\ cpu[c].mode = "back"
  /\ lock' = [lock EXCEPT ![cpu[c].ToBeScheduled] = 0]
  /\ cpu' = [cpu EXCEPT ![c].mode = "sched"]
  /\ UNCHANGED <<proc, wait_lock, nextpid, ticks, th, policy>>
  /\ NoReturn

\* The tick handler of the platform (trap.c, not part of this file) is what
\* moves a process down: the process running in user mode on CPU c is put
\* one level down, to 3 at most, with its tick count at that level reset.
MlfqDemote(c) ==
  LET p == myproc(c) IN
  /\ policy = "MLFQ"
  /\ At(c, "user")
  /\ proc[p].priority_number < 3
  /\ proc' = [proc EXCEPT ![p].priority_number = @ + 1, ![p].no_of_ticks = 0]
  /\ UNCHANGED <<lock, wait_lock, nextpid, ticks, cpu, th, policy>>
  /\ NoReturn

\* The values of ticks followed under MLFQ: the timer may advance the
\* counter by any number of ticks between two steps of the kernel.
MlfqTicks == {0, 11}

MlfqTick ==
  /\ policy = "MLFQ"
  /\ \E t \in MlfqTicks : t > ticks /\ ticks' = t
  /\ UNCHANGED <<proc, lock, wait_lock, nextpid, cpu, th, policy>>
  /\ NoReturn

\* The platform's timer advances ticks, the counter allocproc() and exit()
\* read.  The sweep of update_time() over p->rtime is left out: rtime is read
\* by no step modelled here.
Tick ==
  /\ ticks < (IF policy = "PBS" THEN MaxTicksPBS ELSE MaxTicks)
  /\ ticks' = ticks + 1
  /\ UNCHANGED <<proc, lock, wait_lock, nextpid, cpu, th, policy>>
  /\ NoReturn

\* The steps of a process in the kernel, under every scheduler.
ProcStep(c) ==
  \/ Forkret(c)
  \/ SysFork(c)
  \/ ForkAlloc(c)
  \/ ForkLink(c)
  \/ ForkRun(c)
  \/ Wakeup(c)
  \/ SysExit(c)
  \/ Reparent(c)
  \/ ExitZombie(c)
  \/ SysWait(c)
  \/ WaitChild(c)
  \/ WaitDecide(c)
  \/ SleepGo(c)
  \/ SleepRet(c)
  \/ SleepRelock(c)

-----------------------------------------------------------------------------
Next ==
  \/ \E c \in CPUs : SchedulerVisit(c)
  \/ \E c \in CPUs : SchedulerBack(c)
  \/ \E c \in CPUs : Forkret(c)
  \/ \E c \in CPUs : Yield(c)
  \/ \E c \in CPUs : YieldRet(c)
  \/ \E c \in CPUs : SysFork(c)
  \/ \E c \in CPUs : ForkAlloc(c)
  \/ \E c \in CPUs : ForkLink(c)
  \/ \E c \in CPUs : ForkRun(c)
  \/ \E c \in CPUs : Wakeup(c)
  \/ \E c \in CPUs : SysExit(c)
  \/ \E c \in CPUs : Reparent(c)
  \/ \E c \in CPUs : ExitZombie(c)
  \/ \E c \in CPUs : SysWait(c)
  \/ \E c \in CPUs : WaitChild(c)
  \/ \E c \in CPUs : WaitDecide(c)
  \/ \E c \in CPUs : SleepGo(c)
  \/ \E c \in CPUs : SleepRet(c)
  \/ \E c \in CPUs : SleepRelock(c)
  \/ \E c \in CPUs : SysKill(c)
  \/ \E c \in CPUs : Kill(c)

Spec == Init /\ [][Next]_vars

\* The calls of the processes where exit() meets wait(): fork() that fails
\* only on a full table, exit(0), wait() and kill(2).
ExitWaitCalls ==
  /\ (ret # <<>> /\ ret[2] = "fork" /\ ret[3] < 0) => \A i \in Slots : proc[i].state # "UNUSED"
  /\ \A i \in Slots :
       /\ th[i].sys # "waitx"
       /\ th[i].sys = "exit" => th[i].arg = 0
       /\ th[i].sys = "kill" => th[i].arg = 2

\* Every step of one CPU, its scheduler loop and the process it runs, with
\* the calls of ExitWaitCalls.
CpuStep(c) ==
  /\ \/ SchedulerVisit(c)
     \/ SchedulerBack(c)
     \/ Yield(c)
     \/ YieldRet(c)
     \/ ProcStep(c)
     \/ SysKill(c)
     \/ Kill(c)
  /\ ExitWaitCalls'

NextExitWait ==
  \/ \E c \in CPUs : SchedulerVisit(c) /\ ExitWaitCalls'
  \/ \E c \in CPUs : SchedulerBack(c) /\ ExitWaitCalls'
  \/ \E c \in CPUs : Forkret(c) /\ ExitWaitCalls'
  \/ \E c \in CPUs : Yield(c) /\ ExitWaitCalls'
  \/ \E c \in CPUs : YieldRet(c) /\ ExitWaitCalls'
  \/ \E c \in CPUs : SysFork(c) /\ ExitWaitCalls'
  \/ \E c \in CPUs : ForkAlloc(c) /\ ExitWaitCalls'
  \/ \E c \in CPUs : ForkLink(c) /\ ExitWaitCalls'
  \/ \E c \in CPUs : ForkRun(c) /\ ExitWaitCalls'
  \/ \E c \in CPUs : Wakeup(c) /\ ExitWaitCalls'
  \/ \E c \in CPUs : SysExit(c) /\ ExitWaitCalls'
  \/ \E c \in CPUs : Reparent(c) /\ ExitWaitCalls'
  \/ \E c \in CPUs : ExitZombie(c) /\ ExitWaitCalls'
  \/ \E c \in CPUs : SysWait(c) /\ ExitWaitCalls'
  \/ \E c \in CPUs : WaitChild(c) /\ ExitWaitCalls'
  \/ \E c \in CPUs : WaitDecide(c) /\ ExitWaitCalls'
  \/ \E c \in CPUs : SleepGo(c) /\ ExitWaitCalls'
  \/ \E c \in CPUs : SleepRet(c) /\ ExitWaitCalls'
  \/ \E c \in CPUs : SleepRelock(c) /\ ExitWaitCalls'
  \/ \E c \in CPUs : SysKill(c) /\ ExitWaitCalls'
  \/ \E c \in CPUs : Kill(c) /\ ExitWaitCalls'

\* Fair scheduling: a CPU that can take a step again and again takes one (a
\* spinning acquire() gets the lock that is free again and again), and the
\* process that is in user mode again and again is made to yield() by the
\* timer.
FairSpec ==
  /\ Init
  /\ [][NextExitWait]_vars
  /\ \A c \in CPUs : SF_vars(CpuStep(c)) /\ SF_vars(Yield(c))

\* The kernel built with FCFS, the tick counter running.
InitFCFS == InitWith("FCFS")

NextFCFS ==
  \/ \E c \in CPUs : FcfsVisit(c)
  \/ \E c \in CPUs : FcfsDispatch(c)
  \/ \E c \in CPUs : FcfsBack(c)
  \/ \E c \in CPUs : ProcStep(c)
  \/ Tick

SpecFCFS == InitFCFS /\ [][NextFCFS]_vars

\* The kernel built with PBS, the tick counter running.
InitPBS == InitWith("PBS")

NextPBS ==
  \/ \E c \in CPUs : PbsVisit(c)
  \/ \E c \in CPUs : PbsDispatch(c)
  \/ \E c \in CPUs : PbsBack(c)
  \/ \E c \in CPUs : Yield(c)
  \/ \E c \in CPUs : YieldRet(c)
  \/ \E c \in CPUs : ProcStep(c)
  \/ \E c \in CPUs : SysSetPriority(c)
  \/ \E c \in CPUs : SetPriority(c)
  \/ \E c \in CPUs : SetPriorityYield(c)
  \/ \E c \in CPUs : SetPriorityRet(c)
  \/ Tick

SpecPBS == InitPBS /\ [][NextPBS]_vars

\* The kernel built with MLFQ.
InitMLFQ == InitWith("MLFQ")

NextMLFQ ==
  \/ \E c \in CPUs : MlfqUpgrade(c)
  \/ \E c \in CPUs : MlfqSelect(c)
  \/ \E c \in CPUs : MlfqRoundRobin(c)
  \/ \E c \in CPUs : MlfqDispatch(c)
  \/ \E c \in CPUs : MlfqBack(c)
  \/ \E c \in CPUs : MlfqDemote(c)
  \/ \E c \in CPUs : Yield(c)
  \/ \E c \in CPUs : YieldRet(c)
  \/ \E c \in CPUs : ProcStep(c)
  \/ \E c \in CPUs : ForkYield(c)
  \/ \E c \in CPUs : ForkYieldRet(c)
  \/ MlfqTick

SpecMLFQ == InitMLFQ /\ [][NextMLFQ]_vars

\* The tables a scheduling pass of MLFQ is applied to.  Slot 1 holds the
\* first process, at level 0; the other slots are UNUSED or hold a child of
\* it that is RUNNABLE (it has yielded) or SLEEPING, at any level, enqueued at
\* time_added.  ticks lies at and beyond the thresholds of Max_wait.
PassStates == {"RUNNABLE", "SLEEPING"}
PassTimes == {0, 1}
PassTicks == {2, 11, 31, 101}

passSlot(i, st, lvl, t) ==
  [userinitProc("MLFQ") EXCEPT !.pid = i, !.state = st, !.priority_number = lvl,
                               !.time_added = t,
                               !.parent = IF i = initproc THEN 0 ELSE initproc,
                               !.chan = IF st = "SLEEPING" THEN i ELSE 0]

passThread(st) ==
  IF st = "RUNNABLE" THEN [NoThread EXCEPT !.pc = "yield_ret", !.sys = "yield"]
  ELSE IF st = "SLEEPING" THEN [NoThread EXCEPT !.pc = "sleep_ret", !.sys = "wait"]
  ELSE NoThread

InitMlfqPass ==
  /\ policy = "MLFQ"
  /\ lock = [i \in Slots |-> 0]
  /\ wait_lock = 0
  /\ nextpid = NPROC + 1
  /\ ticks \in PassTicks
  /\ cpu = [c \in CPUs |-> InitCpu]
  /\ ret = <<>>
  /\ \E used \in SUBSET (Slots \ {initproc}) :
     \E st \in [used \cup {initproc} -> PassStates] :
     \E lvl \in [used -> 0..3] :
     \E t \in [used \cup {initproc} -> PassTimes] :
       /\ proc = [i \in Slots |->
                    IF i = initproc THEN passSlot(i, st[i], 0, t[i])
                    ELSE IF i \in used THEN passSlot(i, st[i], lvl[i], t[i])
                    ELSE ZeroProc]
       /\ th = [i \in Slots |->
                  IF i \in used \cup {initproc} THEN passThread(st[i]) ELSE NoThread]

NextMlfqPass ==
  \/ \E c \in CPUs : MlfqUpgrade(c)
  \/ \E c \in CPUs : MlfqSelect(c)
  \/ \E c \in CPUs : MlfqRoundRobin(c)
  \/ \E c \in CPUs : MlfqDispatch(c)

SpecMlfqPass == InitMlfqPass /\ [][NextMlfqPass]_vars

\* The kernel built with any one of the four schedulers.
InitAny == \E pol \in {"DEFAULT", "FCFS", "PBS", "MLFQ"} : InitWith(pol)

NextAny ==
  \/ policy = "DEFAULT" /\ Next
  \/ policy = "FCFS" /\ NextFCFS
  \/ policy = "PBS" /\ NextPBS
  \/ policy = "MLFQ" /\ NextMLFQ

SpecAny == InitAny /\ [][NextAny]_vars

-----------------------------------------------------------------------------
\* Properties of the process table and the life cycle.

Live == {i \in Slots : proc[i].state # "UNUSED"}

\* What freeproc() leaves of a slot: UNUSED, and id, parent, channel, kill
\* flag, exit status, size, address space and entry frame cleared.
Cleared(r) ==
  /\ r.state = "UNUSED" /\ r.pid = 0 /\ r.parent = 0 /\ r.chan = 0 /\ r.killed = 0
  /\ r.xstate = 0 /\ r.sz = 0 /\ r.pagetable = 0 /\ r.trapframe = 0

\* The step returns v from call to the process of slot p.
Ret(p, call, v) == ret' = <<p, call, v>>
\* The step returns from call, with some value.
RetFrom(call) == ret' # <<>> /\ ret'[2] = call

\* No slot other than w sleeps on chan, or is in sleep(chan, lk) between
\* release(lk) and sched().
NoSleeperOn(chan, w) ==
  \A q \in Slots \ {w} :
    /\ ~(proc[q].state = "SLEEPING" /\ proc[q].chan = chan)
    /\ ~(th[q].pc = "sleep_go" /\ th[q].wchan = chan)

\* C1: no wakeup is lost.  A process calls sleep(chan, lk) holding lk (wait()
\* with lk = wait_lock and chan = itself) and takes its own lock before it
\* releases lk; a wakeup(chan) made by a process that holds lk (exit(), for
\* its parent and for initproc) has, when it completes, left no process
\* SLEEPING on chan or still on its way to sleep on chan.
C1_NoLostWakeup ==
  \A w \in Slots :
    /\ th[w].pc = "exit_zombie" => NoSleeperOn(proc[w].parent, w)
    /\ (th[w].pc = "reparent" /\ th[w].nwk >= 1) => NoSleeperOn(initproc, w)

\* C1's case: exit()'s wakeup(p->parent) has completed and the parent, which
\* slept in wait() and was not killed, is RUNNABLE.
C1_Witness ==
  \E w \in Slots :
    /\ th[w].pc = "exit_zombie"
    /\ th[proc[w].parent].pc = "sleep_ret"
    /\ proc[proc[w].parent].state = "RUNNABLE"
    /\ proc[proc[w].parent].killed = 0

\* C3: over all allocations (userinit, fork) and frees (a failed allocation,
\* the reaping in wait), the slots that are not UNUSED never outnumber the
\* table, and no two of them carry the same pid.
C3_LivePidsDistinct ==
  /\ Cardinality(Live) <= NPROC
  /\ \A i, j \in Live : i # j => proc[i].pid # proc[j].pid

\* C3's case: the table is full after pids have been handed out and freed.
C3_Witness == Live = Slots /\ nextpid > MaxPid

\* C4: a wait() or waitx() that returns a pid reaps exactly one ZOMBIE child
\* of the caller: the pid is that child's, its slot is UNUSED with all the
\* fields freeproc() clears cleared, and no other slot changes.
C4_WaitReapsOne ==
  [][\A call \in {"wait", "waitx"} :
       (RetFrom(call) /\ ret'[3] # -1) =>
         \E np \in Slots :
           /\ proc[np].state = "ZOMBIE"
           /\ proc[np].parent = ret'[1]
           /\ proc[np].pid = ret'[3]
           /\ Cleared(proc'[np])
           /\ \A j \in Slots \ {np} : proc'[j] = proc[j]]_vars

\* C4's case: waitx() has returned the pid of a child.
C4_Witness == ret # <<>> /\ ret[2] = "waitx" /\ ret[3] > 0

InWaitLoop == {"wait_scan", "sleep_ret", "sleep_lk"}
ZombieChildren(p) == {q \in Slots : proc[q].parent = p /\ proc[q].state = "ZOMBIE"}

\* A step of wait()/waitx() by p, which has no child, or is killed and has
\* no ZOMBIE child, goes on with the scan or returns -1; it does not put p to
\* sleep and changes no slot.
WaitGivesUp(p) ==
  (/\ th[p].pc = "wait_scan"
   /\ th'[p] # th[p]
   /\ \/ ChildrenFrom(p, 1) = {}
      \/ proc[p].killed = 1 /\ ZombieChildren(p) = {})
  => /\ proc' = proc
     /\ \/ th'[p].pc = "wait_scan"
        \/ th'[p].pc = "user" /\ Ret(p, th[p].sys, -1)

C6_ExitReparents ==
  [][\A p \in Slots :
       (proc[p].state # "ZOMBIE" /\ proc'[p].state = "ZOMBIE" /\ th[p].kids0 # {}) =>
          /\ \A q \in th[p].kids0 : proc'[q].parent = initproc
          /\ \A q \in Slots : proc'[q].parent # p
          /\ th[p].nwk >= 1]_vars

\* C6's case: a ZOMBIE that had a child when it entered exit().
C6_Witness == \E p \in Slots : proc[p].state = "ZOMBIE" /\ th[p].kids0 # {}

\* C7: kill(pid), for a pid that no slot other than UNUSED and ZOMBIE ones
\* carries, returns -1 and changes no field of any slot.
C7_KillDeadNoEffect ==
  [][\A p \in Slots :
       (/\ th[p].pc = "kill_scan"
        /\ th'[p] # th[p]
        /\ \A i \in Slots : proc[i].pid = th[p].arg => proc[i].state \in {"UNUSED", "ZOMBIE"})
       => /\ proc' = proc
          /\ th'[p].pc = "user" => Ret(p, "kill", -1)]_vars

\* The first slot that carries pid: the one kill(pid) acts on.
KillTarget(pid) == Min({i \in Slots : proc[i].pid = pid})

\* C8: a kill() that finds its target in a slot that is not UNUSED sets the
\* target's killed flag; a SLEEPING target turns RUNNABLE in the same step and
\* any other keeps its state (kill() moves no process to ZOMBIE or UNUSED);
\* and a killed flag, once set, is cleared only by freeproc().
C8_KillFlagSticky ==
  [][/\ \A p \in Slots :
          (Ret(p, "kill", 0) /\ proc[KillTarget(th[p].arg)].state # "UNUSED") =>
             LET i == KillTarget(th[p].arg) IN
             /\ proc'[i].killed = 1
             /\ proc'[i].state = IF proc[i].state = "SLEEPING" THEN "RUNNABLE"
                                                                ELSE proc[i].state
             /\ \A j \in Slots \ {i} : proc'[j] = proc[j]
     /\ \A i \in Slots :
          (proc[i].killed = 1 /\ proc'[i].killed = 0) => Cleared(proc'[i])]_vars

\* C8's case: kill() has found its target SLEEPING, and it is RUNNABLE now.
C8_Witness ==
  \E i \in Slots : th[i].kw = 1 /\ proc[i].state = "RUNNABLE" /\ proc[i].killed = 1
                   /\ ret # <<>> /\ ret[2] = "kill" /\ ret[3] = 0

\* C9: fork() returns either the pid of a child slot that is RUNNABLE, whose
\* parent is the caller (linked before the child turned RUNNABLE) and whose
\* pid no other slot carries; or -1, after the last slot was found not
\* UNUSED with no slot changed, or after an allocation or the copy failed
\* with the candidate slot UNUSED and cleared and no other slot changed.
C9_ForkOutcome ==
  [][\A p \in Slots :
       (RetFrom("fork") /\ ret'[1] = p) =>
         IF ret'[3] # -1
           THEN LET np == th[p].np IN
                /\ proc[np].parent = p /\ proc[np].state = "USED"
                /\ proc'[np] = [proc[np] EXCEPT !.state = "RUNNABLE"]
                /\ proc'[np].pid = ret'[3]
                /\ \A j \in Slots \ {np} : proc'[j] = proc[j] /\ proc[j].pid # ret'[3]
           ELSE LET i == th[p].idx IN
                \/ proc[i].state # "UNUSED" /\ i = NPROC /\ proc' = proc
                \/ /\ proc[i].state = "UNUSED"
                   /\ Cleared(proc'[i])
                   /\ \A j \in Slots \ {i} : proc'[j] = proc[j]]_vars

\* C9's case: fork() has failed on a full table.
C9_Witness == ret # <<>> /\ ret[2] = "fork" /\ ret[3] = -1 /\ Live = Slots

-----------------------------------------------------------------------------
\* The slot an FCFS pass has selected comes first among the slots the pass
\* found RUNNABLE: none of them has a smaller start_time, and none with the
\* same start_time has a lower index.
FcfsFirst(c) ==
  LET s == cpu[c].ToBeScheduled IN
  /\ <<s, proc[s].start_time>> \in cpu[c].seen
  /\ \A o \in cpu[c].seen :
       /\ proc[s].start_time <= o[2]
       /\ o[2] = proc[s].start_time => s <= o[1]

\* C10: under FCFS every dispatch runs a slot that is RUNNABLE and has the
\* smallest start_time (set by allocproc) among the slots the selection pass
\* found RUNNABLE, whatever their order in the table; among those with the same
\* smallest start_time it runs the one at the lowest index.
C10_FcfsSelectsEarliest ==
  [][\A c \in CPUs :
       cpu[c].mode = "pick" /\ cpu'[c] # cpu[c] =>
         /\ FcfsFirst(c)
         /\ proc[cpu[c].ToBeScheduled].state = "RUNNABLE"
         /\ cpu'[c].proc = cpu[c].ToBeScheduled
         /\ cpu'[c].mode = "run"
         /\ proc'[cpu[c].ToBeScheduled].state = "RUNNING"]_vars

\* A pass is about to dispatch a slot that lies after a slot it found RUNNABLE
\* with a later start_time.
C10_Witness ==
  \E c \in CPUs :
    /\ cpu[c].mode = "pick"
    /\ \E o \in cpu[c].seen :
         /\ o[1] < cpu[c].ToBeScheduled
         /\ o[2] > proc[cpu[c].ToBeScheduled].start_time

-----------------------------------------------------------------------------
\* Slot q has called exit(): it is on its way to ZOMBIE or is ZOMBIE.
Exited(q) == th[q].sys = "exit" \/ proc[q].state = "ZOMBIE"

\* Slot p is inside wait()/waitx() and a child of it has called exit().
WaitsForExited(p) ==
  /\ th[p].sys \in {"wait", "waitx"}
  /\ \E q \in Slots : proc[q].parent = p /\ Exited(q)

\* p never stays SLEEPING forever while it has a ZOMBIE child.
NoSleepOverZombie(p) ==
  (proc[p].state = "SLEEPING" /\ ZombieChildren(p) # {}) ~> (proc[p].state # "SLEEPING")

\* C2 as stated: under fair scheduling, a process inside wait()/waitx() with a
\* child that has called exit() eventually returns the pid of a child from
\* that call, and never stays SLEEPING forever while it has a ZOMBIE child.
C2_WaitReturnsChild ==
  \A p \in Slots :
    /\ WaitsForExited(p) ~> (ret # <<>> /\ ret[1] = p /\ ret[2] \in {"wait", "waitx"} /\ ret[3] > 0)
    /\ NoSleepOverZombie(p)

\* C2, amended: under fair scheduling, a process inside wait()/waitx() with a
\* child that has called exit() eventually returns from that call, with the
\* pid of a child, or with -1 when it has been killed or when copyout() of the
\* exit status has failed and left the child ZOMBIE; and it never stays
\* SLEEPING forever while it has a ZOMBIE child.
C2_WaitReturns ==
  \A p \in Slots :
    /\ WaitsForExited(p) ~>
         (/\ ret # <<>> /\ ret[1] = p /\ ret[2] \in {"wait", "waitx"}
          /\ \/ ret[3] > 0
             \/ proc[p].killed = 1
             \/ ZombieChildren(p) # {})
    /\ NoSleepOverZombie(p)

\* C2's case: a process that went to sleep in wait() has been woken by the
\* exit() of its child, which is ZOMBIE, and is about to scan the table again.
C2_Witness ==
  \E p, q \in Slots :
    /\ th[p].pc = "sleep_lk" /\ th[p].sys = "wait" /\ proc[p].killed = 0
    /\ proc[q].parent = p /\ proc[q].state = "ZOMBIE"

-----------------------------------------------------------------------------
\* The integer quotient n / d rounded toward zero, d # 0, by its defining
\* property: the remainder is smaller than the divisor and has the sign of n.
Truncated(n, d) ==
  CHOOSE q \in -Abs(n)..Abs(n) :
    LET rem == n - q * d IN Abs(rem) < Abs(d) /\ (rem = 0 \/ (rem > 0) = (n > 0))
Clamp(v, lo, hi) == IF v < lo THEN lo ELSE IF v > hi THEN hi ELSE v

\* C11: PSBPriority() returns a value in 0..100; it is
\* clamp(Static_priority - niceness + 5, 0, 100), niceness being 5 for a slot
\* that never ran or slept (both times -1) and else the truncated quotient
\* 10 * sleeping_time / (sleeping_time + running_time) wherever that quotient
\* is defined.  Static 60 fresh gives 60; static 60, sleeping 80, running 20
\* gives 57.
C11_DynamicPriority ==
  (ret # <<>> /\ ret[2] = "PSBPriority") =>
    LET r == proc[ret[1]]
        s == r.sleeping_time
        t == r.running_time
        fresh == s = -1 /\ t = -1
    IN  /\ ret[3] \in 0..100
        /\ fresh => ret[3] = Clamp(r.Static_priority - 5 + 5, 0, 100)
        /\ (~fresh /\ s + t # 0) =>
             ret[3] = Clamp(r.Static_priority - Truncated(10 * s, s + t) + 5, 0, 100)
        /\ (r.Static_priority = 60 /\ fresh) => ret[3] = 60
        /\ (r.Static_priority = 60 /\ s = 80 /\ t = 20) => ret[3] = 57

\* PSBPriority() has returned 57 for static 60, sleeping 80, running 20.
C11_Witness ==
  /\ ret # <<>> /\ ret[2] = "PSBPriority" /\ ret[3] = 57
  /\ proc[initproc].Static_priority = 60
  /\ proc[initproc].sleeping_time = 80 /\ proc[initproc].running_time = 20

-----------------------------------------------------------------------------
\* The dynamic priority of C11 for static priority sp, sleeping time s and
\* running time t with s + t # 0 or both -1.
DynamicPriority(sp, s, t) ==
  IF s = -1 /\ t = -1 THEN Clamp(sp, 0, 100)
  ELSE Clamp(sp - Truncated(10 * s, s + t) + 5, 0, 100)

\* e and o are entries of seen (PbsFields): e comes before o in the order
\* lower dynamic priority, fewer Times_scheduled, earlier start_time, lower
\* slot.
PbsBefore(e, o) ==
  LET pe == DynamicPriority(e[2], e[3], e[4])
      po == DynamicPriority(o[2], o[3], o[4])
  IN  \/ pe < po
      \/ pe = po /\ e[5] < o[5]
      \/ pe = po /\ e[5] = o[5] /\ e[6] < o[6]
      \/ pe = po /\ e[5] = o[5] /\ e[6] = o[6] /\ e[1] <= o[1]

\* C12: under PBS every dispatch runs a slot that is RUNNABLE and comes first,
\* among the slots the selection pass found RUNNABLE, in the order lower
\* dynamic priority, then fewer Times_scheduled, then earlier start_time, then
\* lower slot (for a pass that did not divide by zero); the dispatch adds one
\* to the slot's Times_scheduled, sets its sleeping_time to 0 and its
\* running_time to ticks, and changes no PBS field of any other slot.
C12_PbsSelectsFirst ==
  [][\A c \in CPUs :
       cpu[c].mode = "pick" /\ cpu'[c] # cpu[c] =>
         LET w == cpu[c].ToBeScheduled IN
         /\ proc[w].state = "RUNNABLE"
         /\ PbsFields(w) \in cpu[c].seen
         /\ ~cpu[c].undef =>
              \A o \in cpu[c].seen : o[1] # w => PbsBefore(PbsFields(w), o)
         /\ cpu'[c].proc = w /\ cpu'[c].mode = "run"
         /\ proc'[w] = [proc[w] EXCEPT !.state = "RUNNING",
                                       !.Times_scheduled = proc[w].Times_scheduled + 1,
                                       !.sleeping_time = 0, !.running_time = ticks]
         /\ \A j \in Slots \ {w} : proc'[j] = proc[j]]_vars

\* A pass that did not divide by zero is about to dispatch a slot that lies
\* after another slot it found RUNNABLE, with the same dynamic priority and
\* fewer Times_scheduled.
C12_Witness ==
  \E c \in CPUs :
    /\ policy = "PBS" /\ cpu[c].mode = "pick" /\ ~cpu[c].undef
    /\ \E o \in cpu[c].seen :
         /\ o[1] < cpu[c].ToBeScheduled
         /\ DynamicPriority(o[2], o[3], o[4]) =
              DynamicPriority(proc[cpu[c].ToBeScheduled].Static_priority,
                              proc[cpu[c].ToBeScheduled].sleeping_time,
                              proc[cpu[c].ToBeScheduled].running_time)
         /\ o[5] > proc[cpu[c].ToBeScheduled].Times_scheduled

-----------------------------------------------------------------------------
\* CPU c runs set_priority_i() and its scan stands at the slot it is looking
\* for: that slot is RUNNABLE or SLEEPING and has the pid asked for.
SetPriorityFinds(c) ==
  /\ At(c, "setp_scan")
  /\ proc[th[myproc(c)].idx].state \in {"RUNNABLE", "SLEEPING"}
  /\ proc[th[myproc(c)].idx].pid = th[myproc(c)].arg

\* C13: a set_priority_i(priority, pid) that finds its target makes the
\* caller yield() exactly when priority is lower in number (more urgent) than
\* the target's old Static_priority.
C13_YieldsIffMoreUrgent ==
  [][\A c \in CPUs :
       (SetPriorityFinds(c) /\ th'[myproc(c)] # th[myproc(c)]) =>
         LET p == myproc(c)
             old_priority == proc[th[p].idx].Static_priority
         IN  (th'[p].pc = "setp_yield") <=> (th[p].np < old_priority)]_vars

\* C14: set_priority_i(priority, pid) returning for a priority outside 0..100
\* or for a pid no RUNNABLE or SLEEPING slot has changes no slot and returns a
\* value that is no static priority (outside 0..100); when it finds the slot
\* it stores priority, sets running_time and sleeping_time to -1, changes no
\* other slot and returns the old Static_priority.
C14_SetPriorityResult ==
  [][\A c \in CPUs :
       LET p == myproc(c)
           i == th[p].idx
       IN
       /\ (At(c, "user") /\ ret' # <<>> /\ ret'[2] = "set_priority" /\ ret'[1] = p) =>
            proc' = proc /\ ret'[3] \notin 0..100
       /\ (At(c, "setp_scan") /\ ~SetPriorityFinds(c) /\ ret' # <<>> /\ ret'[1] = p) =>
            proc' = proc /\ ret'[3] \notin 0..100
       /\ (SetPriorityFinds(c) /\ th'[p] # th[p]) =>
            /\ proc' = [proc EXCEPT ![i].Static_priority = th[p].np,
                                    ![i].running_time = -1, ![i].sleeping_time = -1]
            /\ \/ ret' = <<p, "set_priority", proc[i].Static_priority>>
               \/ ret' = <<>> /\ th'[p].pc = "setp_yield"
                              /\ th'[p].arg = proc[i].Static_priority
       /\ (At(c, "setp_ret") /\ th'[p] # th[p]) =>
            ret' = <<p, "set_priority", th[p].arg>>]_vars

\* The parts of C14 other than the value returned on a rejection.
C14_SetPriorityEffect ==
  [][\A c \in CPUs :
       LET p == myproc(c)
           i == th[p].idx
       IN
       /\ (At(c, "user") /\ ret' # <<>> /\ ret'[2] = "set_priority" /\ ret'[1] = p) =>
            proc' = proc
       /\ (At(c, "setp_scan") /\ ~SetPriorityFinds(c) /\ ret' # <<>> /\ ret'[1] = p) =>
            proc' = proc
       /\ (SetPriorityFinds(c) /\ th'[p] # th[p]) =>
            /\ proc' = [proc EXCEPT ![i].Static_priority = th[p].np,
                                    ![i].running_time = -1, ![i].sleeping_time = -1]
            /\ \/ ret' = <<p, "set_priority", proc[i].Static_priority>>
               \/ ret' = <<>> /\ th'[p].pc = "setp_yield"
                              /\ th'[p].arg = proc[i].Static_priority
       /\ (At(c, "setp_ret") /\ th'[p] # th[p]) =>
            ret' = <<p, "set_priority", th[p].arg>>]_vars

\* set_priority_i() has found its target and returned 2, the old
\* Static_priority: the value it also returns when it finds no target.
SetPriorityReturnsOld2 ==
  \E i \in Slots :
    /\ ret = <<i, "set_priority", 2>>
    /\ \E j \in Slots : proc[j].pid = 2 /\ proc[j].state \in {"RUNNABLE", "SLEEPING"}
                         /\ proc[j].running_time = -1 /\ proc[j].sleeping_time = -1
                         /\ proc[j].Static_priority = 80

-----------------------------------------------------------------------------
\* The wait after which a RUNNABLE slot of level L, 1 <= L <= 3, moves up.
AgingThreshold(L) == Max_wait[L + 1]

\* Slot i is due for aging: RUNNABLE at a level in 1..3 and waiting since
\* time_added for more than the threshold of its level.
AgingDue(i) ==
  /\ proc[i].state = "RUNNABLE"
  /\ proc[i].priority_number \in 1..3
  /\ ticks - proc[i].time_added > AgingThreshold(proc[i].priority_number)

-----------------------------------------------------------------------------
\* The RUNNABLE slots, and those of level l.
Runnable == {i \in Slots : proc[i].state = "RUNNABLE"}
RunnableAt(l) == {i \in Runnable : proc[i].priority_number = l}

\* C16: under MLFQ a pass selects, for dispatch, a RUNNABLE slot of the most
\* urgent level that has a RUNNABLE slot; at a level in 0..2 it is the one
\* with the smallest time_added of that level; a slot of level 3 is selected
\* by the round robin cursor, and only when no slot of the levels 0..2 is
\* RUNNABLE.  So no slot is selected while a slot of a more urgent level is
\* RUNNABLE, whatever its time_added, 0 included.
C16_MlfqSelectsMostUrgent ==
  [][\A c \in CPUs :
       (cpu'[c].mode = "pick" /\ cpu[c].mode \in {"select", "rr"}) =>
         LET s == cpu'[c].ToBeScheduled
             l == proc[s].priority_number
         IN  /\ s \in Runnable
             /\ \A m \in 0..3 : m < l => RunnableAt(m) = {}
             /\ l <= 2 => \A j \in RunnableAt(l) : proc[s].time_added <= proc[j].time_added
             /\ l = 3 => cpu[c].mode = "rr" /\ s = cpu[c].rr_s]_vars

-----------------------------------------------------------------------------
\* C17: a slot becomes ZOMBIE only from RUNNING, by the step of its own
\* exit() that takes the slot's lock and records xstate and etime with it, so
\* that every ZOMBIE slot whose lock can be taken carries them; and a ZOMBIE
\* slot changes state only to UNUSED, by the wait() or waitx() of the process
\* that is its parent at that step.
C17_ZombieDiscipline ==
  [][\A i \in Slots :
       /\ (proc[i].state # "ZOMBIE" /\ proc'[i].state = "ZOMBIE") =>
            /\ proc[i].state = "RUNNING"
            /\ \E c \in CPUs : /\ myproc(c) = i /\ At(c, "exit_zombie")
                                /\ lock[i] = 0 /\ lock'[i] = c
            /\ proc'[i].xstate = th[i].arg
            /\ proc'[i].etime = ticks
       /\ (proc[i].state = "ZOMBIE" /\ proc'[i].state = "ZOMBIE") =>
            proc'[i].xstate = proc[i].xstate /\ proc'[i].etime = proc[i].etime
       /\ (proc[i].state = "ZOMBIE" /\ proc'[i].state # "ZOMBIE") =>
            /\ proc'[i].state = "UNUSED"
            /\ \E c \in CPUs : /\ At(c, "wait_scan")
                                /\ myproc(c) = proc[i].parent
                                /\ th[myproc(c)].sys \in {"wait", "waitx"}
                                /\ ret' = <<myproc(c), th[myproc(c)].sys, proc[i].pid>>]_vars

-----------------------------------------------------------------------------
\* The lock the next step of CPU c acquires: slot lock i as i, wait_lock as
\* NPROC + 1, and 0 when the next step of c acquires none.
WaitLock == NPROC + 1
Wants(c) ==
  LET p == myproc(c) IN
  IF cpu[c].mode = "sched" /\ policy = "DEFAULT" THEN cpu[c].p
  ELSE IF cpu[c].mode # "run" THEN 0
  ELSE IF th[p].pc \in {"fork_alloc", "kill_scan"} THEN th[p].idx
  ELSE IF th[p].pc \in {"fork_link", "sleep_lk"} THEN WaitLock
  ELSE IF th[p].pc = "fork_run" THEN th[p].np
  ELSE IF th[p].pc = "wakeup" THEN (IF th[p].widx = p THEN 0 ELSE th[p].widx)
  ELSE IF th[p].pc = "exit_zombie" THEN p
  ELSE IF th[p].pc = "wait_scan"
    THEN IF ChildrenFrom(p, th[p].idx) # {} THEN Min(ChildrenFrom(p, th[p].idx))
         ELSE IF waitGivesUp(th[p].kids, proc[p].killed) THEN 0 ELSE p
  ELSE 0

\* The CPU holding lock l, 0 when it is free.
HolderOf(l) == IF l = WaitLock THEN wait_lock ELSE lock[l]

\* The CPU that CPU c waits for, 0 when c does not wait.
WaitsOn(c) == IF Wants(c) = 0 THEN 0 ELSE HolderOf(Wants(c))

\* The CPU reached from c after n steps along WaitsOn, 0 when the chain ends.
RECURSIVE WaitChain(_, _)
WaitChain(c, n) ==
  IF n = 0 \/ c = 0 THEN c ELSE WaitChain(WaitsOn(c), n - 1)

\* No CPU waits for a lock it holds itself, and no CPUs wait for each other
\* in a circle.
NoLockCycle == \A c \in CPUs : \A n \in 1..NCPU : WaitChain(c, n) # c

\* The lock order of a state: a CPU about to acquire wait_lock holds no slot
\* lock, and a CPU in wakeup() or kill() does not hold the slot lock it is
\* about to acquire.
LockOrder ==
  \A c \in CPUs :
    /\ Wants(c) = WaitLock => \A i \in Slots : lock[i] # c
    /\ (cpu[c].mode = "run" /\ th[myproc(c)].pc \in {"wakeup", "kill_scan"} /\ Wants(c) # 0)
         => lock[Wants(c)] # c

\* C18: in fork, exit, reparent, wait, waitx, sleep, wakeup and kill no step
\* acquires wait_lock while its CPU holds a slot lock; wakeup() and kill()
\* never go for a slot lock their CPU holds (wakeup() passes over the
\* caller's own slot); and in no reachable state do CPUs wait for locks held
\* by one another in a circle.
C18_LockOrdering ==
  [][/\ \A c \in CPUs :
          (wait_lock # c /\ wait_lock' = c) => \A i \in Slots : lock[i] # c
     /\ \A c \in CPUs :
          (At(c, "wakeup") /\ th[myproc(c)].widx = myproc(c)
                           /\ th'[myproc(c)] # th[myproc(c)]) =>
             (lock' = lock /\ proc' = proc)
     /\ LockOrder'
     /\ NoLockCycle']_vars

\* One CPU is about to take wait_lock in sleep(), its process woken, while
\* the other holds wait_lock in exit() and its wakeup() is about to take the
\* slot lock of that process.
C18_Witness ==
  \E c, d \in CPUs :
    /\ c # d
    /\ At(c, "sleep_lk") /\ wait_lock = d
    /\ At(d, "wakeup") /\ th[myproc(d)].widx = myproc(c)

-----------------------------------------------------------------------------
\* The steps that call sched(): yield(), sleep(), exit(), and the yield() in
\* fork() under MLFQ and in set_priority_i() under PBS.
CallsSched(c) ==
  \/ At(c, "user") /\ th'[myproc(c)].pc = "yield_ret"
  \/ At(c, "sleep_go") /\ th'[myproc(c)].pc = "sleep_ret"
  \/ At(c, "exit_zombie") /\ th'[myproc(c)].pc = "dead"
  \/ At(c, "fork_yield") /\ th'[myproc(c)].pc = "fork_ret"
  \/ At(c, "setp_yield") /\ th'[myproc(c)].pc = "setp_ret"

\* C19: whenever a process on CPU c calls sched(), from yield(), sleep(),
\* exit() or the yield() of fork() (MLFQ) and set_priority_i() (PBS), CPU c
\* holds the lock of that process and no other lock, and the state of the
\* process is no longer RUNNING: the panics of sched() on the locks held and
\* on the state are not reached.  Control goes to the scheduler by these
\* steps only.
C19_SchedPreconditions ==
  [][\A c \in CPUs :
       /\ CallsSched(c) =>
            LET p == myproc(c) IN
            /\ lock'[p] = c
            /\ \A i \in Slots \ {p} : lock'[i] # c
            /\ wait_lock' # c
            /\ proc'[p].state \in {"RUNNABLE", "SLEEPING", "ZOMBIE"}
            /\ cpu'[c].mode = "back"
       /\ (cpu[c].mode = "run" /\ cpu'[c].mode = "back") => CallsSched(c)]_vars

\* A process has called sched() from the yield() inside fork().
C19_Witness ==
  \E c \in CPUs :
    /\ cpu[c].mode = "back"
    /\ th[myproc(c)].pc = "fork_ret"
    /\ proc[myproc(c)].state = "RUNNABLE"
    /\ lock[myproc(c)] = c

-----------------------------------------------------------------------------
\* C20: every slot other than that of the first process that is RUNNABLE,
\* RUNNING, SLEEPING or ZOMBIE has a parent, and the parent's slot is neither
\* UNUSED nor ZOMBIE.
C20_ParentLinks ==
  \A i \in Slots \ {initproc} :
    proc[i].state \in {"RUNNABLE", "RUNNING", "SLEEPING", "ZOMBIE"} =>
      /\ proc[i].parent # 0
      /\ proc[proc[i].parent].state \notin {"UNUSED", "ZOMBIE"}

-----------------------------------------------------------------------------
\* The step of CPU c is an iteration of the PBS selection pass that calls
\* PcbCompare(): the pass has a candidate and finds the slot at its cursor
\* RUNNABLE.
PbsCompares(c) ==
  /\ policy = "PBS"
  /\ cpu[c].mode = "sched" /\ cpu'[c] # cpu[c]
  /\ cpu[c].intialized # -1
  /\ proc[cpu[c].p].state = "RUNNABLE"

\* C21: under PBS, whenever a selection pass evaluates the priority function
\* for the two slots it compares, each of them either has both interval
\* markers at the fresh value -1 or has running_time + sleeping_time # 0.
C21_NoZeroDivisor ==
  [][\A c \in CPUs :
       PbsCompares(c) =>
         /\ ~ZeroDivisor(proc[cpu[c].ToBeScheduled])
         /\ ~ZeroDivisor(proc[cpu[c].p])]_vars

-----------------------------------------------------------------------------
\* The step makes slot i the current process of CPU c.
Dispatches(c, i) == cpu'[c].proc = i /\ cpu[c].proc # i

\* C22: under every policy a slot is made RUNNING, and made the current
\* process of a CPU, only by a step that finds it RUNNABLE and leaves its lock
\* with that CPU; so no slot is the current process of two CPUs at once and
\* no SLEEPING, ZOMBIE, USED or UNUSED slot is dispatched.
C22_DispatchExclusive ==
  [][/\ \A i \in Slots :
          proc'[i].state = "RUNNING" /\ proc[i].state # "RUNNING" =>
            proc[i].state = "RUNNABLE"
     /\ \A c \in CPUs : \A i \in Slots :
          Dispatches(c, i) =>
            /\ proc[i].state = "RUNNABLE"
            /\ proc'[i].state = "RUNNING"
            /\ lock'[i] = c
     /\ \A c, d \in CPUs :
          c # d /\ cpu'[c].proc # 0 => cpu'[c].proc # cpu'[d].proc]_vars

-----------------------------------------------------------------------------
\* The slot locks CPU c holds, and whether the selection pass of c's
\* scheduler (FCFS or PBS) has a candidate.
HeldBy(c) == {i \in Slots : lock[i] = c}
HasCandidate(c) ==
  IF policy = "FCFS" THEN cpu[c].First_start # -1 ELSE cpu[c].intialized # -1

\* CPU c is in its scheduler loop between the start of a selection pass and
\* the dispatch.
InPass(c) == policy \in {"FCFS", "PBS"} /\ cpu[c].mode \in {"sched", "pick"}

\* While CPU c is in a selection pass it holds the lock of its candidate,
\* which is RUNNABLE, and no other slot lock; without a candidate it holds
\* none.
PassLocks(c) ==
  InPass(c) =>
    IF HasCandidate(c)
      THEN /\ HeldBy(c) = {cpu[c].ToBeScheduled}
           /\ proc[cpu[c].ToBeScheduled].state = "RUNNABLE"
      ELSE HeldBy(c) = {}

\* C23: in the FCFS and PBS scheduler loops, after every step of a selection
\* pass and at its end the scheduler holds exactly the lock of the slot
\* selected so far, and none when no slot was RUNNABLE: the lock of a
\* displaced candidate is released at once.  A pass that found no RUNNABLE
\* slot starts over holding nothing; one that found some goes on to the
\* dispatch, and the selected slot's lock stays with the scheduler from the
\* step that found the slot RUNNABLE up to the context transfer.
C23_PassHoldsOneLock ==
  [][\A c \in CPUs :
       /\ PassLocks(c)'
       /\ InPass(c) /\ HasCandidate(c) /\ cpu'[c] # cpu[c] =>
            LET s == cpu[c].ToBeScheduled IN
            \/ cpu'[c].mode = "sched" /\ cpu'[c].ToBeScheduled = s /\ lock'[s] = c
            \/ cpu'[c].mode = "sched" /\ cpu'[c].ToBeScheduled # s /\ lock'[s] = 0
            \/ cpu'[c].mode = "pick" /\ cpu'[c].ToBeScheduled = s /\ lock'[s] = c
            \/ cpu'[c].mode = "pick" /\ cpu'[c].ToBeScheduled # s /\ lock'[s] = 0
            \/ /\ cpu[c].mode = "pick" /\ cpu'[c].mode = "run"
               /\ cpu'[c].proc = s /\ HeldBy(c)' = {s}
               /\ proc'[s].state = "RUNNING"
       /\ InPass(c) /\ ~HasCandidate(c) /\ cpu[c].p = NPROC /\ cpu'[c] # cpu[c]
            /\ proc[NPROC].state # "RUNNABLE" =>
            cpu'[c] = InitCpu /\ HeldBy(c)' = {}]_vars

\* A selection pass has ended with a slot selected that displaced an earlier
\* candidate: the scheduler holds the lock of the selected slot and the lock
\* of the displaced slot is free.
C23_Witness ==
  \E c \in CPUs :
    /\ InPass(c) /\ cpu[c].mode = "pick"
    /\ \E o \in cpu[c].seen :
         /\ o[1] < cpu[c].ToBeScheduled
         /\ \A e \in cpu[c].seen : o[1] <= e[1]
         /\ lock[o[1]] = 0
    /\ HeldBy(c) = {cpu[c].ToBeScheduled}

=============================================================================
